---------------------------- MODULE Spec2Model ----------------------------
(***************************************************************************)
(* A model of the limit order book of src/orderbook/orderbook.cpp:         *)
(* MemoryPool, Level and OrderBook.  Pointers handed out by a MemoryPool   *)
(* are slot numbers (block * BlockSize + index); the memory of the order   *)
(* pool is the function nodes, the memory of the level pool the function   *)
(* levels.  A std::map is a function from its keys to its values, iterated *)
(* in the order of its comparator.  A price (a double) is an integer count *)
(* of units of epsilon (1e-9), so that two prices can differ by no more    *)
(* than epsilon without being equal.                                       *)
(***************************************************************************)
EXTENDS Integers, Sequences, FiniteSets, TLC

VARIABLES order_pool, level_pool, nodes, levels, bid_levels, ask_levels,
          order_lookup, total_orders, total_cancels, total_amends,
          total_snapshots, cached_best_bid, cached_best_ask, cache_valid,
          ub, call, result

vars == <<order_pool, level_pool, nodes, levels, bid_levels, ask_levels,
          order_lookup, total_orders, total_cancels, total_amends,
          total_snapshots, cached_best_bid, cached_best_ask, cache_valid,
          ub, call, result>>

--------------------------------------------------------------------------
(* Bounds of the model. *)

\* order ids the driver uses
MaxId == 2
\* order ids the driver uses when it exercises time priority
FifoMaxId == 3
\* largest quantity the driver passes (0 is passed too)
MaxQty == 2
\* largest timestamp_ns the driver or the clock supplies
MaxTime == 1
\* caps on the counters
MaxOrders == 3
MaxCancels == 2
MaxAmends == 2
MaxSnapshots == 1
\* largest depth asked of get_snapshot
MaxDepth == 2
\* slab capacities of the two pools (1024 and 256 in the source), scaled so
\* that a slab fills up within the caps above
OrderBlockSize == 2
LevelBlockSize == 2

Ids == 1..MaxId
FifoIds == 1..FifoMaxId
Quantities == 0..MaxQty
Timestamps == 0..MaxTime
\* prices in units of epsilon: 1 and 2 are within epsilon of each other,
\* -1 is a negative price
Prices == {-1, 1, 2}
FifoPrices == {1, 2, 4}
ReadPrices == {1, 3}
Depths == 0..MaxDepth

\* constexpr double epsilon = 1e-9, in units of epsilon
epsilon == 1
\* std::numeric_limits<double>::max(), above every price of the model
DBL_MAX == 1000000

--------------------------------------------------------------------------
(* Helpers on functions and sequences. *)

Abs(x) == IF x < 0 THEN -x ELSE x

\* f with key k bound to v (k added to the domain when absent)
Put(f, k, v) == [x \in (DOMAIN f) \cup {k} |-> IF x = k THEN v ELSE f[x]]

\* f without key k
Drop(f, k) == [x \in (DOMAIN f) \ {k} |-> f[x]]

\* the empty function
Empty == [x \in {} |-> 0]

\* s without its elements equal to e
Without(s, e) == SelectSeq(s, LAMBDA x : x # e)

RECURSIVE SeqSum(_)
SeqSum(s) == IF s = <<>> THEN 0 ELSE Head(s) + SeqSum(Tail(s))

Min(S) == CHOOSE x \in S : \A y \in S : x <= y
Max(S) == CHOOSE x \in S : \A y \in S : x >= y

\* the keys of a std::map<double, ..., std::less<double>> in iteration order
RECURSIVE Ascending(_)
Ascending(S) == IF S = {} THEN <<>> ELSE <<Min(S)>> \o Ascending(S \ {Min(S)})

\* the keys of a std::map<double, ..., std::greater<double>> in iteration order
RECURSIVE Descending(_)
Descending(S) == IF S = {} THEN <<>> ELSE <<Max(S)>> \o Descending(S \ {Max(S)})

--------------------------------------------------------------------------
(* MemoryPool<T, BlockSize> *)

\* MemoryPool(): current_index(BlockSize), then allocate_block()
allocate_block(pool) ==
    [pool EXCEPT !.current_index = 0,
                 !.blocks_allocated = pool.blocks_allocated + 1]

MemoryPool(BlockSize) ==
    allocate_block([free_list |-> <<>>, current_index |-> BlockSize,
                    blocks_allocated |-> 0, total_allocations |-> 0,
                    total_deallocations |-> 0])

\* T* allocate(): the pool after the call and the slot returned
allocate(pool, BlockSize) ==
    LET p1 == [pool EXCEPT !.total_allocations = pool.total_allocations + 1] IN
    IF p1.free_list # <<>>
    THEN [pool |-> [p1 EXCEPT !.free_list = SubSeq(p1.free_list, 1, Len(p1.free_list) - 1)],
          ptr |-> p1.free_list[Len(p1.free_list)]]
    ELSE LET p2 == IF p1.current_index >= BlockSize THEN allocate_block(p1) ELSE p1 IN
         [pool |-> [p2 EXCEPT !.current_index = p2.current_index + 1],
          ptr |-> (p2.blocks_allocated - 1) * BlockSize + p2.current_index]

\* deallocate putting the slot at the far end of the free-list
deallocate_far_end(pool, ptr) ==
    [pool EXCEPT !.total_deallocations = pool.total_deallocations + 1,
                 !.free_list = <<ptr>> \o pool.free_list]

\* void deallocate(T* ptr), ptr never null here
deallocate(pool, ptr) ==
    [pool EXCEPT !.total_deallocations = pool.total_deallocations + 1,
                 !.free_list = Append(pool.free_list, ptr)]

--------------------------------------------------------------------------
(* OrderNode and Level *)

\* OrderNode(const Order& o); level_iterator is set by Level::add_order
OrderNode(o) == [order |-> o, level_iterator |-> -1, original_price |-> o.price]

\* Level(double p)
Level(p) == [price |-> p, total_quantity |-> 0, orders |-> <<>>, order_count |-> 0]

\* The state of a book as one record.
Book ==
    [order_pool |-> order_pool, level_pool |-> level_pool, nodes |-> nodes,
     levels |-> levels, bid_levels |-> bid_levels, ask_levels |-> ask_levels,
     order_lookup |-> order_lookup, total_orders |-> total_orders,
     total_cancels |-> total_cancels, total_amends |-> total_amends,
     total_snapshots |-> total_snapshots, cached_best_bid |-> cached_best_bid,
     cached_best_ask |-> cached_best_ask, cache_valid |-> cache_valid, ub |-> ub]

\* Level::add_order without ++order_count
Level_add_order_no_count(b, l, node) ==
    [b EXCEPT !.levels[l].orders = Append(@, node),
              !.nodes[node].level_iterator = l,
              !.levels[l].total_quantity = @ + b.nodes[node].order.quantity]

\* Level::add_order with push_front for push_back
Level_add_order_front(b, l, node) ==
    [b EXCEPT !.levels[l].orders = <<node>> \o @,
              !.nodes[node].level_iterator = l,
              !.levels[l].total_quantity = @ + b.nodes[node].order.quantity,
              !.levels[l].order_count = @ + 1]

\* Level::add_order on the level in slot l: the list element of node is
\* appended; the iterator stored on the node names the list it is in
Level_add_order(b, l, node) ==
    [b EXCEPT !.levels[l].orders = Append(@, node),
              !.nodes[node].level_iterator = l,
              !.levels[l].total_quantity = @ + b.nodes[node].order.quantity,
              !.levels[l].order_count = @ + 1]

\* Level::remove_order without the update of total_quantity
Level_remove_order_keeps_total(b, l, node) ==
    IF b.nodes[node].level_iterator # l
       \/ ~(\E i \in 1..Len(b.levels[l].orders) : b.levels[l].orders[i] = node)
    THEN [b EXCEPT !.ub = TRUE]
    ELSE [b EXCEPT !.levels[l].orders = Without(@, node),
                   !.levels[l].order_count = @ - 1]

\* Level::remove_order erasing the front of the list whatever the iterator
Level_remove_order_pop_front(b, l, node) ==
    IF b.nodes[node].level_iterator # l
       \/ ~(\E i \in 1..Len(b.levels[l].orders) : b.levels[l].orders[i] = node)
    THEN [b EXCEPT !.ub = TRUE]
    ELSE [b EXCEPT !.levels[l].orders = Tail(@),
                   !.levels[l].total_quantity = @ - b.nodes[node].order.quantity,
                   !.levels[l].order_count = @ - 1]

\* Level::remove_order: orders.erase(node->level_iterator) erases the element
\* the iterator points to; an iterator of another list is undefined behaviour
Level_remove_order(b, l, node) ==
    IF b.nodes[node].level_iterator # l
       \/ ~(\E i \in 1..Len(b.levels[l].orders) : b.levels[l].orders[i] = node)
    THEN [b EXCEPT !.ub = TRUE]
    ELSE [b EXCEPT !.levels[l].orders = Without(@, node),
                   !.levels[l].total_quantity = @ - b.nodes[node].order.quantity,
                   !.levels[l].order_count = @ - 1]

\* Level::update_quantity adding the new quantity without taking the old one off
Level_update_quantity_adds(b, l, node, new_quantity) ==
    [b EXCEPT !.levels[l].total_quantity = @ + new_quantity,
              !.nodes[node].order.quantity = new_quantity]

\* Level::update_quantity
Level_update_quantity(b, l, node, new_quantity) ==
    [b EXCEPT !.levels[l].total_quantity =
                  @ - b.nodes[node].order.quantity + new_quantity,
              !.nodes[node].order.quantity = new_quantity]

\* Level::is_empty
Level_is_empty(b, l) == b.levels[l].orders = <<>>

--------------------------------------------------------------------------
(* OrderBook: private helpers.  side is "bid_levels" or "ask_levels". *)

\* template<typename MapType> void add_to_side(MapType& side, OrderNode* node)
add_to_side(b, side, node) ==
    LET price == b.nodes[node].order.price IN
    IF price \notin DOMAIN b[side]
    THEN LET a == allocate(b.level_pool, LevelBlockSize)
             b1 == [b EXCEPT !.level_pool = a.pool,
                             !.levels = Put(@, a.ptr, Level(price)),
                             ![side] = Put(@, price, a.ptr)]
         IN Level_add_order(b1, a.ptr, node)
    ELSE Level_add_order(b, b[side][price], node)

\* remove_from_side leaving an emptied level in the ladder
remove_from_side_keeps_level(b, side, node) ==
    LET price == b.nodes[node].order.price IN
    IF price \in DOMAIN b[side]
    THEN Level_remove_order(b, b[side][price], node)
    ELSE b

\* template<typename MapType> void remove_from_side(MapType& side, OrderNode* node)
remove_from_side(b, side, node) ==
    LET price == b.nodes[node].order.price IN
    IF price \in DOMAIN b[side]
    THEN LET level == b[side][price]
             b1 == Level_remove_order(b, level, node)
         IN IF ~b1.ub /\ Level_is_empty(b1, level)
            THEN [b1 EXCEPT ![side] = Drop(@, price),
                            !.levels = Drop(@, level),
                            !.level_pool = deallocate(@, level)]
            ELSE b1
    ELSE b

\* update_quantity_in_place taking the order out and queueing it again
update_quantity_in_place_requeues(b, side, node, new_quantity) ==
    LET price == b.nodes[node].order.price IN
    IF price \in DOMAIN b[side]
    THEN LET l == b[side][price]
             b1 == Level_remove_order(b, l, node)
             b2 == [b1 EXCEPT !.nodes[node].order.quantity = new_quantity]
         IN Level_add_order(b2, l, node)
    ELSE b

\* template<typename MapType> void update_quantity_in_place(...)
update_quantity_in_place(b, side, node, new_quantity) ==
    LET price == b.nodes[node].order.price IN
    IF price \in DOMAIN b[side]
    THEN Level_update_quantity(b, b[side][price], node, new_quantity)
    ELSE b

SideOf(is_buy) == IF is_buy THEN "bid_levels" ELSE "ask_levels"

--------------------------------------------------------------------------
(* OrderBook: public operations, each the book after the call (and the     *)
(* value returned).                                                        *)

\* add_order with the two sides exchanged
add_order_wrong_side(b, order) ==
    LET a == allocate(b.order_pool, OrderBlockSize)
        node == a.ptr
        b1 == [b EXCEPT !.order_pool = a.pool,
                        !.nodes = Put(@, node, OrderNode(order)),
                        !.order_lookup = IF order.order_id \in DOMAIN @
                                         THEN @ ELSE Put(@, order.order_id, node),
                        !.cache_valid = FALSE]
        b2 == add_to_side(b1, SideOf(~order.is_buy), node)
    IN [b2 EXCEPT !.total_orders = @ + 1]

\* add_order without order_lookup.emplace
add_order_no_index(b, order) ==
    LET a == allocate(b.order_pool, OrderBlockSize)
        node == a.ptr
        b1 == [b EXCEPT !.order_pool = a.pool,
                        !.nodes = Put(@, node, OrderNode(order)),
                        !.cache_valid = FALSE]
        b2 == add_to_side(b1, SideOf(order.is_buy), node)
    IN [b2 EXCEPT !.total_orders = @ + 1]

\* add_order without cache_valid = false
add_order_keeps_cache(b, order) ==
    LET a == allocate(b.order_pool, OrderBlockSize)
        node == a.ptr
        b1 == [b EXCEPT !.order_pool = a.pool,
                        !.nodes = Put(@, node, OrderNode(order)),
                        !.order_lookup = IF order.order_id \in DOMAIN @
                                         THEN @ ELSE Put(@, order.order_id, node)]
        b2 == add_to_side(b1, SideOf(order.is_buy), node)
    IN [b2 EXCEPT !.total_orders = @ + 1]

\* void add_order(const Order& order)
add_order(b, order) ==
    LET a == allocate(b.order_pool, OrderBlockSize)
        node == a.ptr
        b1 == [b EXCEPT !.order_pool = a.pool,
                        !.nodes = Put(@, node, OrderNode(order)),
                        \* unordered_map::emplace keeps an existing entry
                        !.order_lookup = IF order.order_id \in DOMAIN @
                                         THEN @ ELSE Put(@, order.order_id, node),
                        !.cache_valid = FALSE]
        b2 == add_to_side(b1, SideOf(order.is_buy), node)
    IN [b2 EXCEPT !.total_orders = @ + 1]

\* cancel_order taking the cancelled order off total_orders
cancel_order_uncounts_add(b, order_id) ==
    IF order_id \notin DOMAIN b.order_lookup
    THEN [book |-> b, ret |-> FALSE]
    ELSE LET node == b.order_lookup[order_id]
             b1 == [b EXCEPT !.cache_valid = FALSE]
             b2 == remove_from_side(b1, SideOf(b1.nodes[node].order.is_buy), node)
             b3 == [b2 EXCEPT !.order_lookup = Drop(@, order_id),
                              !.nodes = Drop(@, node),
                              !.order_pool = deallocate(@, node),
                              !.total_cancels = @ + 1,
                              !.total_orders = @ - 1]
         IN [book |-> b3, ret |-> TRUE]

\* cancel_order without order_lookup.erase
cancel_order_keeps_index(b, order_id) ==
    IF order_id \notin DOMAIN b.order_lookup
    THEN [book |-> b, ret |-> FALSE]
    ELSE LET node == b.order_lookup[order_id]
             b1 == [b EXCEPT !.cache_valid = FALSE]
             b2 == remove_from_side(b1, SideOf(b1.nodes[node].order.is_buy), node)
             b3 == [b2 EXCEPT !.nodes = Drop(@, node),
                              !.order_pool = deallocate(@, node),
                              !.total_cancels = @ + 1]
         IN [book |-> b3, ret |-> TRUE]

\* cancel_order counting a cancel before it looks the id up
cancel_order_counts_misses(b, order_id) ==
    IF order_id \notin DOMAIN b.order_lookup
    THEN [book |-> [b EXCEPT !.total_cancels = @ + 1], ret |-> FALSE]
    ELSE LET node == b.order_lookup[order_id]
             b1 == [b EXCEPT !.cache_valid = FALSE]
             b2 == remove_from_side(b1, SideOf(b1.nodes[node].order.is_buy), node)
             b3 == [b2 EXCEPT !.order_lookup = Drop(@, order_id),
                              !.nodes = Drop(@, node),
                              !.order_pool = deallocate(@, node),
                              !.total_cancels = @ + 1]
         IN [book |-> b3, ret |-> TRUE]

\* bool cancel_order(uint64_t order_id)
cancel_order(b, order_id) ==
    IF order_id \notin DOMAIN b.order_lookup
    THEN [book |-> b, ret |-> FALSE]
    ELSE LET node == b.order_lookup[order_id]
             b1 == [b EXCEPT !.cache_valid = FALSE]
             b2 == remove_from_side(b1, SideOf(b1.nodes[node].order.is_buy), node)
             b3 == [b2 EXCEPT !.order_lookup = Drop(@, order_id),
                              !.nodes = Drop(@, node),
                              !.order_pool = deallocate(@, node),
                              !.total_cancels = @ + 1]
         IN [book |-> b3, ret |-> TRUE]

\* amend_order comparing the prices with != and no epsilon
amend_order_exact_compare(b, order_id, new_price, new_quantity, now) ==
    IF order_id \notin DOMAIN b.order_lookup
    THEN [book |-> b, ret |-> FALSE, branch |-> "not_found"]
    ELSE LET node == b.order_lookup[order_id]
             b1 == [b EXCEPT !.cache_valid = FALSE]
             price_change == b1.nodes[node].order.price # new_price
             b2 == IF price_change
                   THEN LET new_order == [b1.nodes[node].order EXCEPT
                                              !.price = new_price,
                                              !.quantity = new_quantity,
                                              !.timestamp_ns = now]
                        IN add_order(cancel_order(b1, order_id).book, new_order)
                   ELSE update_quantity_in_place(
                            b1, SideOf(b1.nodes[node].order.is_buy), node, new_quantity)
         IN [book |-> [b2 EXCEPT !.total_amends = @ + 1], ret |-> TRUE,
             branch |-> IF price_change THEN "price_change" ELSE "quantity_only"]

\* amend_order storing new_price in the node on the quantity-only path
amend_order_stores_price(b, order_id, new_price, new_quantity, now) ==
    IF order_id \notin DOMAIN b.order_lookup
    THEN [book |-> b, ret |-> FALSE, branch |-> "not_found"]
    ELSE LET node == b.order_lookup[order_id]
             b1 == [b EXCEPT !.cache_valid = FALSE]
             price_change == Abs(b1.nodes[node].order.price - new_price) > epsilon
             b2 == IF price_change
                   THEN LET new_order == [b1.nodes[node].order EXCEPT
                                              !.price = new_price,
                                              !.quantity = new_quantity,
                                              !.timestamp_ns = now]
                        IN add_order(cancel_order(b1, order_id).book, new_order)
                   ELSE [update_quantity_in_place(
                            b1, SideOf(b1.nodes[node].order.is_buy), node, new_quantity)
                            EXCEPT !.nodes[node].order.price = new_price]
         IN [book |-> [b2 EXCEPT !.total_amends = @ + 1], ret |-> TRUE,
             branch |-> IF price_change THEN "price_change" ELSE "quantity_only"]

\* amend_order comparing the price difference with twice epsilon
amend_order_wide_epsilon(b, order_id, new_price, new_quantity, now) ==
    IF order_id \notin DOMAIN b.order_lookup
    THEN [book |-> b, ret |-> FALSE, branch |-> "not_found"]
    ELSE LET node == b.order_lookup[order_id]
             b1 == [b EXCEPT !.cache_valid = FALSE]
             price_change == Abs(b1.nodes[node].order.price - new_price) > 2 * epsilon
             b2 == IF price_change
                   THEN LET new_order == [b1.nodes[node].order EXCEPT
                                              !.price = new_price,
                                              !.quantity = new_quantity,
                                              !.timestamp_ns = now]
                        IN add_order(cancel_order(b1, order_id).book, new_order)
                   ELSE update_quantity_in_place(
                            b1, SideOf(b1.nodes[node].order.is_buy), node, new_quantity)
         IN [book |-> [b2 EXCEPT !.total_amends = @ + 1], ret |-> TRUE,
             branch |-> IF price_change THEN "price_change" ELSE "quantity_only"]

\* bool amend_order(uint64_t order_id, double new_price, uint64_t new_quantity);
\* now is the reading of the clock on the price-change path, branch the
\* branch of the code the call took
amend_order(b, order_id, new_price, new_quantity, now) ==
    IF order_id \notin DOMAIN b.order_lookup
    THEN [book |-> b, ret |-> FALSE, branch |-> "not_found"]
    ELSE LET node == b.order_lookup[order_id]
             b1 == [b EXCEPT !.cache_valid = FALSE]
             price_change == Abs(b1.nodes[node].order.price - new_price) > epsilon
             b2 == IF price_change
                   THEN LET new_order == [b1.nodes[node].order EXCEPT
                                              !.price = new_price,
                                              !.quantity = new_quantity,
                                              !.timestamp_ns = now]
                        IN add_order(cancel_order(b1, order_id).book, new_order)
                   ELSE update_quantity_in_place(
                            b1, SideOf(b1.nodes[node].order.is_buy), node, new_quantity)
         IN [book |-> [b2 EXCEPT !.total_amends = @ + 1], ret |-> TRUE,
             branch |-> IF price_change THEN "price_change" ELSE "quantity_only"]

\* the loop of get_snapshot breaking one entry late
RECURSIVE SnapshotLoop_late(_, _, _, _, _, _)
SnapshotLoop_late(b, side, keys, count, depth, out) ==
    IF keys = <<>> \/ count > depth
    THEN out
    ELSE SnapshotLoop_late(b, side, Tail(keys), count + 1, depth,
                           Append(out, [price |-> Head(keys),
                                        total_quantity |->
                                            b.levels[b[side][Head(keys)]].total_quantity]))

\* the loop of get_snapshot over one side: keys in iteration order, count the
\* loop counter, out the vector filled so far
RECURSIVE SnapshotLoop(_, _, _, _, _, _)
SnapshotLoop(b, side, keys, count, depth, out) ==
    IF keys = <<>> \/ count >= depth
    THEN out
    ELSE SnapshotLoop(b, side, Tail(keys), count + 1, depth,
                      Append(out, [price |-> Head(keys),
                                   total_quantity |->
                                       b.levels[b[side][Head(keys)]].total_quantity]))

\* get_snapshot invalidating the best-price cache as the mutators do
get_snapshot_invalidates(b, depth, bids, asks) ==
    [book |-> [b EXCEPT !.total_snapshots = @ + 1, !.cache_valid = FALSE],
     bids |-> SnapshotLoop(b, "bid_levels", Descending(DOMAIN b.bid_levels), 0, depth, <<>>),
     asks |-> SnapshotLoop(b, "ask_levels", Ascending(DOMAIN b.ask_levels), 0, depth, <<>>)]

\* void get_snapshot(size_t depth, vector<PriceLevel>& bids, vector<PriceLevel>& asks);
\* bids and asks are the vectors as the caller passes them
get_snapshot(b, depth, bids, asks) ==
    [book |-> [b EXCEPT !.total_snapshots = @ + 1],
     bids |-> SnapshotLoop(b, "bid_levels", Descending(DOMAIN b.bid_levels), 0, depth, <<>>),
     asks |-> SnapshotLoop(b, "ask_levels", Ascending(DOMAIN b.ask_levels), 0, depth, <<>>)]

\* std::pair<double, double> get_best_prices() const
get_best_prices(b) ==
    LET b1 == IF ~b.cache_valid
              THEN [b EXCEPT !.cached_best_bid =
                                 IF DOMAIN b.bid_levels = {} THEN 0
                                 ELSE Head(Descending(DOMAIN b.bid_levels)),
                             !.cached_best_ask =
                                 IF DOMAIN b.ask_levels = {} THEN DBL_MAX
                                 ELSE Head(Ascending(DOMAIN b.ask_levels)),
                             !.cache_valid = TRUE]
              ELSE b
    IN [book |-> b1, best_bid |-> b1.cached_best_bid, best_ask |-> b1.cached_best_ask]

\* can_match with > for >=
can_match_strict(b) ==
    IF DOMAIN b.bid_levels = {} \/ DOMAIN b.ask_levels = {}
    THEN [book |-> b, ret |-> FALSE]
    ELSE LET p == get_best_prices(b) IN
         [book |-> p.book, ret |-> p.best_bid > p.best_ask]

\* bool can_match() const
can_match(b) ==
    IF DOMAIN b.bid_levels = {} \/ DOMAIN b.ask_levels = {}
    THEN [book |-> b, ret |-> FALSE]
    ELSE LET p == get_best_prices(b) IN
         [book |-> p.book, ret |-> p.best_bid >= p.best_ask]

\* Stats get_stats() const
get_stats(b) ==
    LET p == get_best_prices(b) IN
    [book |-> p.book,
     stats |-> [total_orders |-> b.total_orders,
                total_cancels |-> b.total_cancels,
                total_amends |-> b.total_amends,
                active_orders |-> Cardinality(DOMAIN b.order_lookup),
                bid_levels |-> Cardinality(DOMAIN b.bid_levels),
                ask_levels |-> Cardinality(DOMAIN b.ask_levels),
                best_bid |-> p.best_bid,
                best_ask |-> p.best_ask,
                spread |-> IF p.best_ask = DBL_MAX THEN 0
                           ELSE p.best_ask - p.best_bid]]

--------------------------------------------------------------------------
(* The driver: one action per public operation.  call records the call     *)
(* just made (and the branch an amend took), result what it returned.      *)

NoCall == [op |-> "none", order_id |-> 0, is_buy |-> FALSE, price |-> 0,
           quantity |-> 0, depth |-> 0, branch |-> ""]

NoStats == [total_orders |-> 0, total_cancels |-> 0, total_amends |-> 0,
            active_orders |-> 0, bid_levels |-> 0, ask_levels |-> 0,
            best_bid |-> 0, best_ask |-> 0, spread |-> 0]

NoResult == [ret |-> FALSE, best_bid |-> 0, best_ask |-> 0, bids |-> <<>>,
             asks |-> <<>>, stats |-> NoStats]

\* the book becomes b
Install(b) ==
    /\ order_pool' = b.order_pool
    /\ level_pool' = b.level_pool
    /\ nodes' = b.nodes
    /\ levels' = b.levels
    /\ bid_levels' = b.bid_levels
    /\ ask_levels' = b.ask_levels
    /\ order_lookup' = b.order_lookup
    /\ total_orders' = b.total_orders
    /\ total_cancels' = b.total_cancels
    /\ total_amends' = b.total_amends
    /\ total_snapshots' = b.total_snapshots
    /\ cached_best_bid' = b.cached_best_bid
    /\ cached_best_ask' = b.cached_best_ask
    /\ cache_valid' = b.cache_valid
    /\ ub' = b.ub

\* OrderBook()
Init ==
    /\ order_pool = MemoryPool(OrderBlockSize)
    /\ level_pool = MemoryPool(LevelBlockSize)
    /\ nodes = Empty
    /\ levels = Empty
    /\ bid_levels = Empty
    /\ ask_levels = Empty
    /\ order_lookup = Empty
    /\ total_orders = 0
    /\ total_cancels = 0
    /\ total_amends = 0
    /\ total_snapshots = 0
    /\ cached_best_bid = 0
    /\ cached_best_ask = 0
    /\ cache_valid = FALSE
    /\ ub = FALSE
    /\ call = NoCall
    /\ result = NoResult

\* a call of add_order with an order drawn from the given sets
AddOrderFrom(I, S, P, Q, T) ==
    /\ ~ub
    /\ total_orders < MaxOrders
    /\ \E id \in I, is_buy \in S, price \in P, quantity \in Q, ts \in T :
          /\ Install(add_order(Book, [order_id |-> id, is_buy |-> is_buy,
                                      price |-> price, quantity |-> quantity,
                                      timestamp_ns |-> ts]))
          /\ call' = [NoCall EXCEPT !.op = "add", !.order_id = id, !.is_buy = is_buy,
                                    !.price = price, !.quantity = quantity]
          /\ result' = NoResult

\* a call of cancel_order
CancelOrderFrom(I) ==
    /\ ~ub
    /\ total_cancels < MaxCancels
    /\ \E id \in I :
          LET r == cancel_order(Book, id) IN
          /\ Install(r.book)
          /\ call' = [NoCall EXCEPT !.op = "cancel", !.order_id = id]
          /\ result' = [NoResult EXCEPT !.ret = r.ret]

\* a call of amend_order; the price-change path calls cancel_order and add_order
AmendOrderFrom(I, P, Q, T) ==
    /\ ~ub
    /\ total_amends < MaxAmends
    /\ total_orders < MaxOrders
    /\ total_cancels < MaxCancels
    /\ \E id \in I, price \in P, quantity \in Q, now \in T :
          LET r == amend_order(Book, id, price, quantity, now) IN
          /\ Install(r.book)
          /\ call' = [NoCall EXCEPT !.op = "amend", !.order_id = id,
                                    !.price = price, !.quantity = quantity,
                                    !.branch = r.branch]
          /\ result' = [NoResult EXCEPT !.ret = r.ret]

AddOrder == AddOrderFrom(Ids, BOOLEAN, Prices, Quantities, {0})

CancelOrder == CancelOrderFrom(Ids)

AmendOrder == AmendOrderFrom(Ids, Prices, Quantities, {0})

\* what a caller's vector may hold before get_snapshot fills it
PriorVectors == {<<>>, <<[price |-> 0, total_quantity |-> 0]>>}

GetSnapshot ==
    /\ ~ub
    /\ total_snapshots < MaxSnapshots
    /\ \E depth \in Depths, bids \in PriorVectors, asks \in PriorVectors :
          LET r == get_snapshot(Book, depth, bids, asks) IN
          /\ Install(r.book)
          /\ call' = [NoCall EXCEPT !.op = "snapshot", !.depth = depth]
          /\ result' = [NoResult EXCEPT !.bids = r.bids, !.asks = r.asks]

GetBestPrices ==
    /\ ~ub
    /\ LET r == get_best_prices(Book) IN
          /\ Install(r.book)
          /\ call' = [NoCall EXCEPT !.op = "best_prices"]
          /\ result' = [NoResult EXCEPT !.best_bid = r.best_bid,
                                        !.best_ask = r.best_ask]

CanMatch ==
    /\ ~ub
    /\ LET r == can_match(Book) IN
          /\ Install(r.book)
          /\ call' = [NoCall EXCEPT !.op = "can_match"]
          /\ result' = [NoResult EXCEPT !.ret = r.ret]

GetStats ==
    /\ ~ub
    /\ LET r == get_stats(Book) IN
          /\ Install(r.book)
          /\ call' = [NoCall EXCEPT !.op = "stats"]
          /\ result' = [NoResult EXCEPT !.stats = r.stats]

\* The mutating operations, over every side, price and quantity.
Next ==
    \/ AddOrder
    \/ CancelOrder
    \/ AmendOrder

Spec == Init /\ [][Next]_vars

\* Three ids on the bid side at nearby prices, with arbitrary timestamps and
\* positive quantities.
FifoAdd == AddOrderFrom(FifoIds, {TRUE}, FifoPrices, {1}, Timestamps)

FifoCancel == CancelOrderFrom(FifoIds)

FifoAmend == AmendOrderFrom(FifoIds, FifoPrices, 1..MaxQty, Timestamps)

FifoNext ==
    \/ FifoAdd
    \/ FifoCancel
    \/ FifoAmend

SpecFifo == Init /\ [][FifoNext]_vars

\* The reads interleaved with the mutating operations, at two prices further
\* apart than epsilon.
ReadAdd == AddOrderFrom(Ids, BOOLEAN, ReadPrices, {1}, {0})

ReadCancel == CancelOrderFrom(Ids)

ReadAmend == AmendOrderFrom(Ids, ReadPrices, {1}, {0})

ReadNext ==
    \/ ReadAdd
    \/ ReadCancel
    \/ ReadAmend
    \/ GetSnapshot
    \/ GetBestPrices
    \/ CanMatch
    \/ GetStats

SpecRead == Init /\ [][ReadNext]_vars

--------------------------------------------------------------------------
(* Views of the state used by the properties. *)

Sides == {"bid_levels", "ask_levels"}

\* the ladder of one side in the current state
Ladder(side) == IF side = "bid_levels" THEN bid_levels ELSE ask_levels

\* the places <<side, price, position>> where the FIFOs of book b hold slot n
Places(b, n) ==
    {pl \in UNION {UNION {{<<side, p, i>> : i \in 1..Len(b.levels[b[side][p]].orders)}
                             : p \in DOMAIN b[side]} : side \in Sides} :
        b.levels[b[pl[1]][pl[2]]].orders[pl[3]] = n}

\* the quantities of the nodes of a FIFO, in FIFO order
FifoQuantities(b, l) ==
    [i \in 1..Len(b.levels[l].orders) |-> b.nodes[b.levels[l].orders[i]].order.quantity]

\* what a ladder side shows: per price the aggregates and the FIFO as the
\* sequence of <<order_id, quantity>>
SideView(b, side) ==
    [p \in DOMAIN b[side] |->
        LET L == b.levels[b[side][p]] IN
        [total_quantity |-> L.total_quantity,
         order_count |-> L.order_count,
         fifo |-> [i \in 1..Len(L.orders) |->
                      <<b.nodes[L.orders[i]].order.order_id,
                        b.nodes[L.orders[i]].order.quantity>>]]]

LadderView(b) == [side \in Sides |-> SideView(b, side)]

\* the call just made named a resting order before it ran
CalledOnResting == call'.order_id \in DOMAIN order_lookup

--------------------------------------------------------------------------
(* C1: add with an order_id that is already in the Index fails without    *)
(* side effects: both ladders, every level's FIFO and aggregates, the      *)
(* Index and the counters are the same after the call as before it.        *)
C1_DuplicateAddNoEffect ==
    [][(call'.op = "add" /\ CalledOnResting)
          => UNCHANGED <<bid_levels, ask_levels, levels, order_lookup,
                         total_orders, total_cancels, total_amends>>]_vars

--------------------------------------------------------------------------
(* C2: in every state, every (id, node) of the Index has                   *)
(* node.order.order_id = id, and the node is in exactly one place of       *)
(* exactly one Level FIFO, that Level being on the side of                 *)
(* node.order.is_buy under the key node.order.price.                       *)
C2_IndexCoherence ==
    \A id \in DOMAIN order_lookup :
        LET n == order_lookup[id] IN
        /\ n \in DOMAIN nodes
        /\ nodes[n].order.order_id = id
        /\ Cardinality(Places(Book, n)) = 1
        /\ \A pl \in Places(Book, n) :
              /\ pl[1] = SideOf(nodes[n].order.is_buy)
              /\ pl[2] = nodes[n].order.price

\* both ids rest, on opposite sides, after adds, a cancel and an amend
C2_Witness ==
    /\ DOMAIN order_lookup = Ids
    /\ nodes[order_lookup[1]].order.is_buy # nodes[order_lookup[2]].order.is_buy
    /\ total_cancels >= 1
    /\ total_amends >= 1

--------------------------------------------------------------------------
(* C3: in every state, for every Level of either ladder, total_quantity    *)
(* is the sum of the quantities of the nodes of its FIFO and order_count   *)
(* is the length of its FIFO.                                              *)
C3_AggregateConsistency ==
    \A side \in Sides : \A p \in DOMAIN Ladder(side) :
        LET l == Ladder(side)[p] IN
        /\ levels[l].total_quantity = SeqSum(FifoQuantities(Book, l))
        /\ levels[l].order_count = Len(levels[l].orders)

\* a level of two orders of different quantities, after a cancel and an
\* amend, when the third add has just run
C3_Witness ==
    /\ total_cancels >= 1
    /\ total_amends >= 1
    /\ call.op = "add" /\ total_orders = 3
    /\ \E side \in Sides : \E p \in DOMAIN Ladder(side) :
          /\ Len(levels[Ladder(side)[p]].orders) = 2
          /\ levels[Ladder(side)[p]].total_quantity = 3

--------------------------------------------------------------------------
(* C4: in every state a price key is in a ladder side iff its Level's      *)
(* FIFO is non-empty: every Level of a ladder has order_count >= 1 and a   *)
(* non-empty FIFO, and every live Level and every live node is linked      *)
(* from a ladder (a Level whose last order went is unlinked in that same   *)
(* operation).                                                             *)
C4_LevelPresentIffNonEmpty ==
    /\ \A side \in Sides : \A p \in DOMAIN Ladder(side) :
          /\ Ladder(side)[p] \in DOMAIN levels
          /\ levels[Ladder(side)[p]].order_count >= 1
          /\ levels[Ladder(side)[p]].orders # <<>>
    /\ \A l \in DOMAIN levels :
          \E side \in Sides : \E p \in DOMAIN Ladder(side) : Ladder(side)[p] = l
    /\ \A n \in DOMAIN nodes : Places(Book, n) # {}

\* a successful cancel has emptied a level, which went back to the pool,
\* while another level stays
C4_Witness ==
    /\ call.op = "cancel" /\ result.ret
    /\ level_pool.free_list # <<>>
    /\ DOMAIN bid_levels \cup DOMAIN ask_levels # {}

--------------------------------------------------------------------------
(* C5: time priority within a level.  An order added at a price where      *)
(* orders already rest lands behind all of them, and once A precedes B in  *)
(* a Level's FIFO, A still precedes B there after every call that neither  *)
(* cancels nor price-amends A or B, whatever the timestamps are.           *)

\* in book b the resting orders a and c share a level and a is ahead of c
PrecedesIn(b, a, c) ==
    /\ a \in DOMAIN b.order_lookup
    /\ c \in DOMAIN b.order_lookup
    /\ \E pa \in Places(b, b.order_lookup[a]) : \E pc \in Places(b, b.order_lookup[c]) :
          pa[1] = pc[1] /\ pa[2] = pc[2] /\ pa[3] < pc[3]

\* the call just made cancels the resting order x or moves it to another price
Retires(x) ==
    /\ call'.order_id = x
    /\ \/ call'.op = "cancel"
       \/ /\ call'.op = "amend"
          /\ Abs(nodes[order_lookup[x]].order.price - call'.price) > epsilon

C5_TimePriority ==
    [][/\ \A a \in DOMAIN order_lookup : \A c \in DOMAIN order_lookup :
             (PrecedesIn(Book, a, c) /\ ~Retires(a) /\ ~Retires(c))
                 => PrecedesIn(Book', a, c)
       /\ (call'.op = "add" /\ ~CalledOnResting)
             => \A a \in DOMAIN order_lookup :
                   (/\ nodes[order_lookup[a]].order.is_buy = call'.is_buy
                    /\ nodes[order_lookup[a]].order.price = call'.price)
                       => PrecedesIn(Book', a, call'.order_id)]_vars

\* three direct adds, a quantity amend of a and a cancel of a third order
\* later, a is still ahead of c although its timestamp is the later one
C5_Witness ==
    /\ total_orders = 3 /\ total_amends = 1 /\ total_cancels = 1
    /\ call.op = "cancel" /\ result.ret
    /\ \E a \in DOMAIN order_lookup : \E c \in DOMAIN order_lookup :
          /\ PrecedesIn(Book, a, c)
          /\ nodes[order_lookup[a]].order.quantity = 2
          /\ nodes[order_lookup[a]].order.timestamp_ns
                > nodes[order_lookup[c]].order.timestamp_ns

--------------------------------------------------------------------------
(* The resting order a call names, as it was before the call. *)

CalledNode == order_lookup[call'.order_id]

CalledSide == SideOf(nodes[CalledNode].order.is_buy)

CalledPrice == nodes[CalledNode].order.price

CalledLevel == Ladder(CalledSide)[CalledPrice]

--------------------------------------------------------------------------
(* C6: an amend of a resting order to its current price and a positive     *)
(* quantity returns true, keeps every FIFO as it is (the order keeps its   *)
(* position), sets the order's quantity to new_quantity, changes its       *)
(* Level's total_quantity by exactly new_quantity - old quantity, and      *)
(* leaves order_count, the ladders, the Index and every other Level alone. *)
C6_QuantityOnlyAmend ==
    [][(/\ call'.op = "amend"
        /\ CalledOnResting
        /\ call'.price = CalledPrice
        /\ call'.quantity > 0)
          => /\ result'.ret
             /\ UNCHANGED <<bid_levels, ask_levels, order_lookup>>
             /\ DOMAIN levels' = DOMAIN levels
             /\ \A l \in DOMAIN levels : levels'[l].orders = levels[l].orders
             /\ \A l \in DOMAIN levels \ {CalledLevel} : levels'[l] = levels[l]
             /\ nodes'[CalledNode].order.quantity = call'.quantity
             /\ levels'[CalledLevel].total_quantity =
                    levels[CalledLevel].total_quantity
                        + call'.quantity - nodes[CalledNode].order.quantity
             /\ levels'[CalledLevel].order_count = levels[CalledLevel].order_count]_vars

\* a quantity-only amend of the order at the head of a level of two
C6_Witness ==
    /\ call.op = "amend" /\ call.branch = "quantity_only" /\ result.ret
    /\ call.quantity > 0
    /\ call.order_id \in DOMAIN order_lookup
    /\ LET n == order_lookup[call.order_id]
           l == Ladder(SideOf(nodes[n].order.is_buy))[nodes[n].order.price]
       IN /\ nodes[n].order.price = call.price
          /\ nodes[n].order.quantity = call.quantity
          /\ Len(levels[l].orders) = 2
          /\ levels[l].orders[1] = n
          /\ levels[l].total_quantity = 3

--------------------------------------------------------------------------
(* C7: amend of a resting order to another price leaves the ladders        *)
(* (levels, FIFO contents and order, aggregates) and the key set of the    *)
(* Index as cancel(id) followed by add of an order of the same id and      *)
(* side with the new price and quantity leaves them, and the amended order *)
(* is at the tail of the FIFO of the new-price level on its side.          *)

\* the book after cancel(id); add(order with the call's price and quantity)
CancelThenAdd ==
    add_order(cancel_order(Book, call'.order_id).book,
              [nodes[CalledNode].order EXCEPT !.price = call'.price,
                                              !.quantity = call'.quantity])

AmendedLikeCancelThenAdd ==
    /\ LadderView(Book') = LadderView(CancelThenAdd)
    /\ DOMAIN order_lookup' = DOMAIN CancelThenAdd.order_lookup
    /\ call'.price \in DOMAIN Book'[CalledSide]
    /\ LET fifo == levels'[Book'[CalledSide][call'.price]].orders IN
          /\ fifo[Len(fifo)] = order_lookup'[call'.order_id]
          /\ nodes'[fifo[Len(fifo)]].order.order_id = call'.order_id

\* as claimed: for every new price that differs from the current one
C7_Original ==
    [][(/\ call'.op = "amend"
        /\ CalledOnResting
        /\ call'.price # CalledPrice)
          => AmendedLikeCancelThenAdd]_vars

\* amended: for every new price further than epsilon from the current one
C7_PriceAmendIsCancelThenAdd ==
    [][(/\ call'.op = "amend"
        /\ CalledOnResting
        /\ Abs(CalledPrice - call'.price) > epsilon)
          => AmendedLikeCancelThenAdd]_vars

\* a price-changing amend has put the order behind another one
C7_Witness ==
    /\ call.op = "amend" /\ call.branch = "price_change" /\ result.ret
    /\ call.order_id \in DOMAIN order_lookup
    /\ LET n == order_lookup[call.order_id]
           l == Ladder(SideOf(nodes[n].order.is_buy))[nodes[n].order.price]
       IN /\ nodes[n].order.price = call.price
          /\ Len(levels[l].orders) = 2
          /\ levels[l].orders[2] = n

--------------------------------------------------------------------------
(* C8: amend(id, new_price, 0) of a resting order is rejected: it returns  *)
(* false and mutates nothing (quantity, price, FIFO position, aggregates   *)
(* and counters), at the order's own price and at another price.           *)
C8_AmendToZeroRejected ==
    [][(/\ call'.op = "amend"
        /\ CalledOnResting
        /\ call'.quantity = 0)
          => /\ ~result'.ret
             /\ UNCHANGED <<nodes, levels, bid_levels, ask_levels, order_lookup,
                            total_orders, total_cancels, total_amends>>]_vars

--------------------------------------------------------------------------
(* C9: cancel(id) returns true iff id is in the Index when it is called;   *)
(* after a true return id is not in the Index, the order's node is in no   *)
(* FIFO, and its Level is gone from the ladder if the node was its only    *)
(* one, and else has lost exactly that node, its quantity and 1 of its     *)
(* order_count.                                                            *)
C9_Cancel ==
    [][(call'.op = "cancel")
          => /\ result'.ret = CalledOnResting
             /\ result'.ret =>
                   /\ call'.order_id \notin DOMAIN order_lookup'
                   /\ Places(Book', CalledNode) = {}
                   /\ IF Len(levels[CalledLevel].orders) = 1
                      THEN /\ CalledPrice \notin DOMAIN Book'[CalledSide]
                           /\ CalledLevel \notin DOMAIN levels'
                      ELSE /\ CalledPrice \in DOMAIN Book'[CalledSide]
                           /\ Book'[CalledSide][CalledPrice] = CalledLevel
                           /\ levels'[CalledLevel].orders =
                                  Without(levels[CalledLevel].orders, CalledNode)
                           /\ levels'[CalledLevel].total_quantity =
                                  levels[CalledLevel].total_quantity
                                      - nodes[CalledNode].order.quantity
                           /\ levels'[CalledLevel].order_count =
                                  levels[CalledLevel].order_count - 1]_vars

\* a cancel has taken one of two orders out of a level, which stays
C9_Witness ==
    /\ call.op = "cancel" /\ result.ret
    /\ total_orders = 2 /\ total_cancels = 1 /\ total_amends = 0
    /\ level_pool.free_list = <<>>
    /\ level_pool.total_allocations = 1
    /\ order_pool.free_list # <<>>
    /\ call.order_id \notin DOMAIN order_lookup

--------------------------------------------------------------------------
(* C10: cancel or amend of an id that is not in the Index returns false    *)
(* and leaves the book as it was: both ladders, all FIFOs and aggregates,  *)
(* the nodes, the Index and the counters total_orders, total_cancels and   *)
(* total_amends.                                                           *)
C10_UnknownIdNoEffect ==
    [][(call'.op \in {"cancel", "amend"} /\ ~CalledOnResting)
          => /\ ~result'.ret
             /\ UNCHANGED <<nodes, levels, bid_levels, ask_levels, order_lookup,
                            total_orders, total_cancels, total_amends>>]_vars

\* an amend of an id that was cancelled before, while another order rests
C10_Witness ==
    /\ call.op = "amend" /\ call.branch = "not_found" /\ ~result.ret
    /\ total_cancels >= 1
    /\ DOMAIN order_lookup # {}
    /\ call.order_id \notin DOMAIN order_lookup

--------------------------------------------------------------------------
(* What the ladders hold, read off the maps without the cache. *)

\* the highest bid key, 0 on an empty bid side
BestBid(b) == IF DOMAIN b.bid_levels = {} THEN 0 ELSE Max(DOMAIN b.bid_levels)

\* the lowest ask key, the maximum price on an empty ask side
BestAsk(b) == IF DOMAIN b.ask_levels = {} THEN DBL_MAX ELSE Min(DOMAIN b.ask_levels)

\* both sides hold a level and the best bid is at or above the best ask
Crossed(b) ==
    /\ DOMAIN b.bid_levels # {}
    /\ DOMAIN b.ask_levels # {}
    /\ BestBid(b) >= BestAsk(b)

\* out is the first min(depth, number of levels) levels of side in book b:
\* bids in strictly decreasing, asks in strictly increasing price order, each
\* entry with its level's total_quantity, and no level left out is better
\* than one that is in
IsSnapshotOf(out, b, side, depth) ==
    LET keys == DOMAIN b[side]
        Better(p, q) == IF side = "bid_levels" THEN p > q ELSE p < q
    IN /\ Len(out) = IF depth < Cardinality(keys) THEN depth ELSE Cardinality(keys)
       /\ \A i \in 1..Len(out) :
             /\ out[i].price \in keys
             /\ out[i].total_quantity = b.levels[b[side][out[i].price]].total_quantity
       /\ \A i \in 1..Len(out) : \A j \in 1..Len(out) :
             i < j => Better(out[i].price, out[j].price)
       /\ \A i \in 1..Len(out) :
             \A p \in keys \ {out[j].price : j \in 1..Len(out)} :
                 Better(out[i].price, p)

--------------------------------------------------------------------------
(* C11: whatever adds, cancels, amends and reads came before,              *)
(* get_best_prices returns the highest bid key (0 on an empty bid side)    *)
(* and the lowest ask key (the maximum price on an empty ask side): the    *)
(* cached pair is never stale.                                             *)
C11_BestPricesNeverStale ==
    /\ get_best_prices(Book).best_bid = BestBid(Book)
    /\ get_best_prices(Book).best_ask = BestAsk(Book)
    /\ call.op = "best_prices"
          => /\ result.best_bid = BestBid(Book)
             /\ result.best_ask = BestAsk(Book)

\* a read cached a best bid of 3; the ladder has changed since, its best
\* bid is now 1, and the cache is marked invalid
C11_Witness ==
    /\ cached_best_bid = 3
    /\ BestBid(Book) = 1
    /\ DOMAIN bid_levels # {}
    /\ ~cache_valid

--------------------------------------------------------------------------
(* C12: in every state can_match returns true iff both ladder sides are    *)
(* non-empty and the best bid is >= the best ask; it is false on an empty  *)
(* or single-sided book, and a crossed book is reachable.                  *)
C12_CanMatch ==
    /\ can_match(Book).ret = Crossed(Book)
    /\ call.op = "can_match" => result.ret = Crossed(Book)

\* can_match has returned true on a book whose best bid equals its best ask
C12_Witness ==
    /\ call.op = "can_match" /\ result.ret
    /\ BestBid(Book) = BestAsk(Book)

--------------------------------------------------------------------------
(* C13: get_snapshot(depth, bids, asks) leaves in bids the first           *)
(* min(depth, bid levels) levels in strictly decreasing price order and in *)
(* asks the first min(depth, ask levels) levels in strictly increasing     *)
(* price order, each with its price and total_quantity; a depth beyond the *)
(* number of levels gives all levels and no padding, and what the vectors  *)
(* held before is gone.                                                    *)
C13_Snapshot ==
    /\ \A depth \in Depths : \A prior \in PriorVectors :
          LET r == get_snapshot(Book, depth, prior, prior) IN
          /\ IsSnapshotOf(r.bids, Book, "bid_levels", depth)
          /\ IsSnapshotOf(r.asks, Book, "ask_levels", depth)
    /\ call.op = "snapshot"
          => /\ IsSnapshotOf(result.bids, Book, "bid_levels", call.depth)
             /\ IsSnapshotOf(result.asks, Book, "ask_levels", call.depth)

\* a snapshot of depth 2 of two bid levels, best first, and of one ask level
C13_Witness ==
    /\ call.op = "snapshot" /\ call.depth = 2
    /\ Cardinality(DOMAIN bid_levels) = 2
    /\ Cardinality(DOMAIN ask_levels) = 1
    /\ Len(result.bids) = 2 /\ result.bids[1].price = 3 /\ result.bids[2].price = 1
    /\ Len(result.asks) = 1

--------------------------------------------------------------------------
(* C14: get_snapshot is a pure read and idempotent: it changes only the    *)
(* snapshot counter (not the ladders, FIFOs, nodes, Index, pools,          *)
(* best-price cache or the other counters), and a second call with the     *)
(* same depth returns the same vectors.                                    *)
C14_SnapshotPure ==
    [][(call'.op = "snapshot")
          => /\ UNCHANGED <<order_pool, level_pool, nodes, levels, bid_levels,
                            ask_levels, order_lookup, total_orders, total_cancels,
                            total_amends, cached_best_bid, cached_best_ask,
                            cache_valid>>
             /\ total_snapshots' = total_snapshots + 1
             /\ LET again == get_snapshot(Book', call'.depth, result'.bids, result'.asks)
                IN /\ again.bids = result'.bids
                   /\ again.asks = result'.asks]_vars

\* a snapshot of a two-sided book taken while the cache is valid
C14_Witness ==
    /\ call.op = "snapshot"
    /\ cache_valid
    /\ result.bids # <<>>
    /\ result.asks # <<>>

--------------------------------------------------------------------------
(* C15: for an order o whose id is not resting, add(o) followed at once by *)
(* cancel(o.id) gives back the ladders, every level's FIFO and aggregates, *)
(* the nodes and the Index as they were before the add.                    *)
C15_AddThenCancelRestores ==
    [][(call'.op = "add" /\ ~CalledOnResting)
          => LET r == cancel_order(Book', call'.order_id)
             IN /\ r.ret
                /\ r.book.bid_levels = bid_levels
                /\ r.book.ask_levels = ask_levels
                /\ r.book.levels = levels
                /\ r.book.nodes = nodes
                /\ r.book.order_lookup = order_lookup]_vars

\* two orders were added and the second of them (slot 1 of the pool) was
\* cancelled right after, while the first still rests
C15_Witness ==
    /\ call.op = "cancel" /\ result.ret
    /\ total_orders = 2 /\ total_cancels = 1 /\ total_amends = 0
    /\ order_pool.free_list = <<1>>
    /\ DOMAIN order_lookup # {}
    /\ call.order_id \notin DOMAIN order_lookup

--------------------------------------------------------------------------
(* C16: amend of a resting order to its current price and its current      *)
(* quantity returns true and changes nothing one can observe: snapshots at *)
(* every depth, best prices, can_match, every FIFO and the Index.          *)
C16_AmendSameIsNoOp ==
    [][(/\ call'.op = "amend"
        /\ CalledOnResting
        /\ call'.price = CalledPrice
        /\ call'.quantity = nodes[CalledNode].order.quantity)
          => /\ result'.ret
             /\ \A depth \in Depths :
                   /\ get_snapshot(Book', depth, <<>>, <<>>).bids
                          = get_snapshot(Book, depth, <<>>, <<>>).bids
                   /\ get_snapshot(Book', depth, <<>>, <<>>).asks
                          = get_snapshot(Book, depth, <<>>, <<>>).asks
             /\ get_best_prices(Book').best_bid = get_best_prices(Book).best_bid
             /\ get_best_prices(Book').best_ask = get_best_prices(Book).best_ask
             /\ can_match(Book').ret = can_match(Book).ret
             /\ DOMAIN levels' = DOMAIN levels
             /\ \A l \in DOMAIN levels : levels'[l].orders = levels[l].orders
             /\ UNCHANGED <<bid_levels, ask_levels, order_lookup>>]_vars

\* the only amend so far kept price and quantity (every add has quantity 1)
\* of the order at the head of a level of two, after a read filled the cache
C16_Witness ==
    /\ call.op = "amend" /\ call.branch = "quantity_only" /\ result.ret
    /\ total_amends = 1
    /\ call.quantity = 1
    /\ cached_best_ask # 0
    /\ call.order_id \in DOMAIN order_lookup
    /\ LET n == order_lookup[call.order_id]
           l == Ladder(SideOf(nodes[n].order.is_buy))[nodes[n].order.price]
       IN /\ nodes[n].order.price = call.price
          /\ nodes[n].order.quantity = 1
          /\ Len(levels[l].orders) = 2
          /\ levels[l].orders[1] = n

--------------------------------------------------------------------------
(* C17: add of an order with quantity 0 or with a negative price is        *)
(* rejected: it leaves the nodes, the levels, both ladders and the Index   *)
(* as they were.                                                           *)
C17_InvalidAddRejected ==
    [][(call'.op = "add" /\ (call'.quantity = 0 \/ call'.price < 0))
          => UNCHANGED <<nodes, levels, bid_levels, ask_levels, order_lookup>>]_vars

--------------------------------------------------------------------------
(* C18: an add, cancel or amend called with id X leaves every other        *)
(* resting order as it was: its node keeps side, price and quantity, it    *)
(* stays at its level, and the other orders of each level keep their       *)
(* relative order; an add that crosses the opposite side trades nothing.   *)
C18_OthersUntouched ==
    [][(call'.op \in {"add", "cancel", "amend"})
          => LET called == IF CalledOnResting THEN {CalledNode} ELSE {}
                 others == DOMAIN nodes \ called
                 Other(n) == n \in others
             IN /\ \A n \in others :
                      /\ n \in DOMAIN nodes'
                      /\ nodes'[n].order = nodes[n].order
                /\ \A id \in DOMAIN order_lookup \ {call'.order_id} :
                      /\ id \in DOMAIN order_lookup'
                      /\ order_lookup'[id] = order_lookup[id]
                /\ \A side \in Sides : \A p \in DOMAIN Ladder(side) :
                      LET old == SelectSeq(levels[Ladder(side)[p]].orders, Other)
                      IN old # <<>>
                            => /\ p \in DOMAIN Book'[side]
                               /\ SelectSeq(levels'[Book'[side][p]].orders, Other) = old
                               /\ levels'[Book'[side][p]].total_quantity
                                      >= SeqSum([i \in 1..Len(old) |->
                                                    nodes[old[i]].order.quantity])]_vars

\* the second add crossed the first order, and both rest with their quantities
C18_Witness ==
    /\ call.op = "add"
    /\ total_orders = 2 /\ total_cancels = 0 /\ total_amends = 0
    /\ Crossed(Book)
    /\ BestBid(Book) > BestAsk(Book)
    /\ \A n \in DOMAIN nodes : nodes[n].order.quantity = MaxQty
    /\ levels[bid_levels[BestBid(Book)]].total_quantity = MaxQty
    /\ levels[ask_levels[BestAsk(Book)]].total_quantity = MaxQty

--------------------------------------------------------------------------
(* C19: the id of an order that has left the book can be used again: a     *)
(* later add with that id puts one entry for it in the Index, the order    *)
(* rests at the tail of its level as the call gave it, and a cancel or an  *)
(* amend that follows finds it.                                            *)
C19_RetiredIdReusable ==
    [][(call'.op = "add" /\ ~CalledOnResting)
          => /\ call'.order_id \in DOMAIN order_lookup'
             /\ DOMAIN order_lookup' = DOMAIN order_lookup \cup {call'.order_id}
             /\ LET n == order_lookup'[call'.order_id]
                    side == SideOf(call'.is_buy)
                IN /\ n \notin DOMAIN nodes
                   /\ n \in DOMAIN nodes'
                   /\ nodes'[n].order.order_id = call'.order_id
                   /\ nodes'[n].order.is_buy = call'.is_buy
                   /\ nodes'[n].order.price = call'.price
                   /\ nodes'[n].order.quantity = call'.quantity
                   /\ call'.price \in DOMAIN Book'[side]
                   /\ LET orders == levels'[Book'[side][call'.price]].orders
                      IN orders[Len(orders)] = n
                   /\ Cardinality(Places(Book', n)) = 1
             /\ cancel_order(Book', call'.order_id).ret
             /\ amend_order(Book', call'.order_id, call'.price, call'.quantity, 0).ret]_vars

\* ids 1 and 2 rested at one level, 1 was cancelled (the level stayed, so no
\* level was ever freed) and is added again: it rests behind 2
C19_Witness ==
    /\ call.op = "add" /\ call.order_id = 1
    /\ total_orders = 3 /\ total_cancels = 1 /\ total_amends = 0
    /\ level_pool.total_deallocations = 0
    /\ DOMAIN order_lookup = {1, 2}
    /\ Cardinality(DOMAIN nodes) = 2
    /\ Places(Book, order_lookup[2]) = {<<SideOf(call.is_buy), call.price, 1>>}
    /\ Places(Book, order_lookup[1]) = {<<SideOf(call.is_buy), call.price, 2>>}

--------------------------------------------------------------------------
(* C20: after adds only, once every id added has been cancelled, the book  *)
(* is empty: no active order, no level on either side, best prices         *)
(* (0, maximum price), can_match false and an empty snapshot.              *)
C20_AllCancelledIsEmpty ==
    (DOMAIN order_lookup = {} /\ total_amends = 0)
        => /\ get_stats(Book).stats.active_orders = 0
           /\ DOMAIN bid_levels = {}
           /\ DOMAIN ask_levels = {}
           /\ get_best_prices(Book).best_bid = 0
           /\ get_best_prices(Book).best_ask = DBL_MAX
           /\ ~can_match(Book).ret
           /\ get_snapshot(Book, MaxDepth, <<>>, <<>>).bids = <<>>
           /\ get_snapshot(Book, MaxDepth, <<>>, <<>>).asks = <<>>

--------------------------------------------------------------------------
(* C21: over any sequence of operations total_orders, total_cancels and    *)
(* total_amends never decrease.                                            *)
C21_CountersMonotonic ==
    [][/\ total_orders' >= total_orders
       /\ total_cancels' >= total_cancels
       /\ total_amends' >= total_amends]_vars

\* a cancel has run after adds and an amend were counted
C21_Witness ==
    /\ call.op = "cancel" /\ result.ret
    /\ total_orders >= 2
    /\ total_cancels >= 1
    /\ total_amends >= 1

--------------------------------------------------------------------------
(* C22: the counters count the caller's operations: an add raises          *)
(* total_orders by 1 and nothing else, a cancel that returns true          *)
(* total_cancels by 1 and nothing else, an amend that returns true, with   *)
(* or without a change of price, total_amends by 1 and nothing else; a     *)
(* cancel or amend that returns false raises none.                         *)
C22_CountersCountCalls ==
    [][/\ call'.op = "add"
          => /\ total_orders' = total_orders + 1
             /\ UNCHANGED <<total_cancels, total_amends>>
       /\ call'.op = "cancel"
          => /\ total_cancels' = total_cancels + (IF result'.ret THEN 1 ELSE 0)
             /\ UNCHANGED <<total_orders, total_amends>>
       /\ call'.op = "amend"
          => /\ total_amends' = total_amends + (IF result'.ret THEN 1 ELSE 0)
             /\ UNCHANGED <<total_orders, total_cancels>>]_vars

--------------------------------------------------------------------------
(* C23: in every reachable state active_orders of get_stats, the size of   *)
(* the Index, equals the sum of order_count over the levels of both        *)
(* ladders.                                                                *)
C23_ActiveOrdersIsLevelCount ==
    get_stats(Book).stats.active_orders
        = SeqSum([i \in 1..Cardinality(DOMAIN bid_levels) |->
                     levels[bid_levels[Ascending(DOMAIN bid_levels)[i]]].order_count])
          + SeqSum([i \in 1..Cardinality(DOMAIN ask_levels) |->
                       levels[ask_levels[Ascending(DOMAIN ask_levels)[i]]].order_count])

--------------------------------------------------------------------------
(* C24: whenever cancel, the cancel-leg of a price-changing amend or a     *)
(* quantity-only amend looks up the Level at the indexed node's side and   *)
(* price, the Level is there and holds the node: remove_from_side and      *)
(* update_quantity_in_place never take their level-not-found branch, so a  *)
(* cancel leaves the node in no FIFO and an amend that returns true has    *)
(* been applied.                                                           *)
C24_LevelAlwaysFound ==
    [][(call'.op \in {"cancel", "amend"} /\ CalledOnResting)
          => /\ CalledPrice \in DOMAIN Ladder(CalledSide)
             /\ \E i \in 1..Len(levels[CalledLevel].orders) :
                   levels[CalledLevel].orders[i] = CalledNode
             /\ remove_from_side(Book, CalledSide, CalledNode) # Book
             /\ update_quantity_in_place(Book, CalledSide, CalledNode,
                                         nodes[CalledNode].order.quantity + 1) # Book
             /\ call'.op = "cancel"
                   => \A l \in DOMAIN levels' :
                          \A i \in 1..Len(levels'[l].orders) :
                              levels'[l].orders[i] # CalledNode
             /\ call'.branch = "quantity_only"
                   => /\ result'.ret
                      /\ nodes'[CalledNode].order.quantity = call'.quantity
                      /\ levels'[CalledLevel].total_quantity =
                             levels[CalledLevel].total_quantity
                                 + call'.quantity - nodes[CalledNode].order.quantity
             /\ call'.branch = "price_change"
                   => /\ result'.ret
                      /\ call'.order_id \in DOMAIN order_lookup'
                      /\ LET n == order_lookup'[call'.order_id]
                         IN /\ nodes'[n].order.price = call'.price
                            /\ nodes'[n].order.quantity = call'.quantity
                            /\ \A pl \in Places(Book', n) :
                                  pl[1] = CalledSide /\ pl[2] = call'.price
                            /\ Cardinality(Places(Book', n)) = 1]_vars

\* after a cancel and an earlier amend, a price-changing amend has run its
\* cancel-leg and the order rests at the new price
C24_Witness ==
    /\ call.op = "amend" /\ call.branch = "price_change" /\ result.ret
    /\ total_amends = 2
    /\ total_cancels = 2
    /\ call.order_id \in DOMAIN order_lookup
    /\ nodes[order_lookup[call.order_id]].order.price = call.price

--------------------------------------------------------------------------
(* C25: an amend to a new price that is not the order's price but within   *)
(* epsilon of it is quantity-only: it returns true, the order stays where  *)
(* it is in its Level under the old price key with the new quantity, and   *)
(* no level is made or removed; the ladder keys levels by exact price, so  *)
(* the order does not rest at key new_price afterwards.                    *)
C25_AmendWithinEpsilon ==
    [][(/\ call'.op = "amend"
        /\ CalledOnResting
        /\ call'.price # CalledPrice
        /\ Abs(call'.price - CalledPrice) <= epsilon)
          => /\ result'.ret
             /\ call'.branch = "quantity_only"
             /\ UNCHANGED <<bid_levels, ask_levels, order_lookup>>
             /\ DOMAIN levels' = DOMAIN levels
             /\ \A l \in DOMAIN levels : levels'[l].orders = levels[l].orders
             /\ nodes'[CalledNode].order.price = CalledPrice
             /\ nodes'[CalledNode].order.quantity = call'.quantity
             /\ Places(Book', CalledNode) = Places(Book, CalledNode)
             /\ \A pl \in Places(Book', CalledNode) : pl[2] # call'.price]_vars

\* an amend to price 2 returned true and the order rests at key 1 with the
\* new quantity, while another level stands at key 2 on the same side
C25_Witness ==
    /\ call.op = "amend" /\ call.branch = "quantity_only" /\ result.ret
    /\ call.price = 2
    /\ call.order_id \in DOMAIN order_lookup
    /\ LET n == order_lookup[call.order_id]
           side == SideOf(nodes[n].order.is_buy)
       IN /\ nodes[n].order.price = 1
          /\ nodes[n].order.quantity = call.quantity
          /\ {1, 2} \subseteq DOMAIN Ladder(side)
          /\ Ladder(side)[1] # Ladder(side)[2]
          /\ \E i \in 1..Len(levels[Ladder(side)[1]].orders) :
                levels[Ladder(side)[1]].orders[i] = n

--------------------------------------------------------------------------
(* C26: the spread of get_stats is best_ask - best_bid when both sides     *)
(* hold a level and 0 when the bid side, the ask side or both are empty.   *)
C26_Spread ==
    LET expected == IF DOMAIN bid_levels # {} /\ DOMAIN ask_levels # {}
                    THEN BestAsk(Book) - BestBid(Book)
                    ELSE 0
    IN /\ get_stats(Book).stats.spread = expected
       /\ call.op = "stats" => result.stats.spread = expected

--------------------------------------------------------------------------
(* The slots of a pool. *)

\* the slots the pool has issued so far
Issued(pool, BlockSize) ==
    0 .. ((pool.blocks_allocated - 1) * BlockSize + pool.current_index - 1)

\* what allocate would do on pool while the slots of live are in use
SlotDiscipline(pool, live, BlockSize) ==
    LET a == allocate(pool, BlockSize)
        free == {pool.free_list[i] : i \in 1..Len(pool.free_list)}
    IN /\ a.ptr \notin live
       /\ live \cap free = {}
       /\ Cardinality(free) = Len(pool.free_list)
       /\ live \cup free = Issued(pool, BlockSize)
       /\ pool.free_list # <<>> => a.ptr \in free
       /\ pool.free_list = <<>> => a.ptr \notin Issued(pool, BlockSize)
       /\ a.pool.blocks_allocated >= pool.blocks_allocated
       /\ a.pool.blocks_allocated > pool.blocks_allocated
             => /\ pool.free_list = <<>>
                /\ pool.current_index = BlockSize

--------------------------------------------------------------------------
(* C27: pool slot discipline.  With a non-empty free-list allocate returns *)
(* the slot deallocated last, otherwise a slot never issued before, and it *)
(* opens a new slab only when the free-list is empty and the current slab  *)
(* is full; no slot is handed out while it is live, so no two orders and   *)
(* no two Levels share a slot; the number of slabs never decreases.        *)
C27_PoolSlotDiscipline ==
    [][/\ SlotDiscipline(order_pool, DOMAIN nodes, OrderBlockSize)
       /\ SlotDiscipline(level_pool, DOMAIN levels, LevelBlockSize)
       /\ order_pool'.blocks_allocated >= order_pool.blocks_allocated
       /\ level_pool'.blocks_allocated >= level_pool.blocks_allocated
       /\ (call'.op = "cancel" /\ result'.ret)
             => /\ allocate(order_pool', OrderBlockSize).ptr = CalledNode
                /\ CalledLevel \notin DOMAIN levels'
                      => allocate(level_pool', LevelBlockSize).ptr = CalledLevel]_vars

\* the second cancel freed a slot while an older one was on the free-list,
\* after the third add had opened the second slab
C27_Witness ==
    /\ call.op = "cancel" /\ result.ret
    /\ order_pool.blocks_allocated = 2
    /\ Len(order_pool.free_list) = 2
    /\ DOMAIN nodes # {}

==========================================================================
